---- MODULE Spec2Model ----
(***************************************************************************)
(* Product-review plugin: the review store, the four workflow steps        *)
(* (create, approve, reject, delete) with their compensation functions,    *)
(* the runs that execute them, and the storefront/admin listings.          *)
(***************************************************************************)
EXTENDS Integers, Sequences, FiniteSets, TLC

\* ------------------------------------------------------------------ bounds
\* Number of review ids the store ever assigns.
MaxReviews == 2
\* Number of steps run A is composed of at most, beside a concurrent run.
MaxSteps == 2
\* Number of steps a run is composed of at most when it runs alone.
MaxSeqSteps == 3
\* Number of review ids the store assigns when only the plugin's workflows run.
MaxRated == 3
\* Length of an uploaded file's name, in characters of NameChars.
MaxNameLen == 4
\* Number of files an upload request carries at most.
MaxUploadFiles == 2

\* ------------------------------------------------------------- value sets
NULL == "NULL"
Runs == {"A", "B"}
Ids == 1..MaxReviews
Products == {"p1", "p2"}
Reasons == {"spam", "abuse"}
\* The review_id a request names: an assigned id, or one that never exists.
ReviewIdInputs == 1..(MaxReviews + 1)

VARIABLES
  reviews,      \* the review store: id -> ProductReviewDTO, for the stored ids
  nextId,       \* the next id the store assigns
  pc,           \* per run: running | retrieved | compensating | done | failed
  stepNo,       \* per run: number of steps started
  cur,          \* per run: the step in flight between its two store calls
  committed,    \* per run: the (step, compensation data) pairs committed
  error,        \* per run: the error the run surfaces
  undone,       \* per run: the steps whose compensation was invoked, in order
  stepBound,    \* per run: the number of steps its workflows are composed of
  snap,         \* per run (history): the store before the latest forward,
                \* kept while nothing else has changed the store since
  everApproved, \* (history) ids an approve update was applied to
  inverseErrors, \* per run: the steps whose compensation raised, in order
  idBound,      \* the number of ids the store assigns at most
  files,        \* upload request: the files it carries
  uploadPc,     \* upload request: received | accepted | uploading | responded
  handed,       \* upload request: the files handed to the file service
  response,     \* upload request: the response sent
  invoked,      \* a compensation function invoked on its own: its step, its
                \* data, and the store calls it issued
  uploads,      \* upload request: per handed file, its fileService.upload:
                \* inflight | resolved | rejected
  unlinked,     \* upload request: the fs.unlinkSync calls made: the file's
                \* place in the request, and whether the call returned
  auto_approve, \* the plugin option auto_approve
  listing       \* a listing request: its phase, what it read, its response

uploadVars == <<files, uploadPc, handed, response, uploads, unlinked>>

\* What no step, compensation or workflow of the reviews changes.
besideReviews == <<stepBound, idBound, uploadVars, invoked, auto_approve, listing>>

\* What the upload route leaves alone.
besideUpload ==
  <<reviews, nextId, pc, stepNo, cur, committed, error, undone, stepBound, snap,
    everApproved, inverseErrors, idBound, invoked, auto_approve, listing>>

vars == <<reviews, nextId, pc, stepNo, cur, committed, error, undone,
          stepBound, snap, everApproved, inverseErrors, idBound, files,
          uploadPc, handed, response, invoked, uploads, unlinked,
          auto_approve, listing>>

\* -------------------------------------------------------------- the store
\* ProductReviewDTO without the timestamps the persistence layer maintains.
ProductReviewDTO(id, p, c, rt, t, ct, st, rr, hc, rc) ==
  [id |-> id, product_id |-> p, customer_id |-> c, rating |-> rt, title |-> t,
   content |-> ct, status |-> st, rejection_reason |-> rr,
   helpful_count |-> hc, reported_count |-> rc]

\* service.create(data): inserts the record under its id.
serviceCreate(store, data) ==
  [i \in DOMAIN store \cup {data.id} |-> IF i = data.id THEN data ELSE store[i]]

\* service.update with the selector lost: the patch is applied to every record.
serviceUpdateAll(store, id, patch) ==
  [i \in DOMAIN store |->
     [f \in DOMAIN store[i] |-> IF f \in DOMAIN patch THEN patch[f] ELSE store[i][f]]]

\* service.update(id, patch): overwrites exactly the fields the patch names.
serviceUpdate(store, id, patch) ==
  [store EXCEPT ![id] =
     [f \in DOMAIN @ |-> IF f \in DOMAIN patch THEN patch[f] ELSE @[f]]]

\* service.delete(id): removes the record; nothing to do for a missing id.
serviceDelete(store, id) ==
  [i \in DOMAIN store \ {id} |-> store[i]]

\* deleteProductReviewStep, forward: service.delete(input.review_id).
deleteProductReviewStepForward(store, review_id) ==
  serviceDelete(store, review_id)

\* ------------------------------------------------------------ the listings
\* The storefront listing with the status filter lost.
StoreGETReviewsAnyStatus(store, id) ==
  {store[i] : i \in {j \in DOMAIN store : store[j].product_id = id}}

\* GET /store/products/:id/reviews: filters product_id = id, status = approved.
StoreGETReviews(store, id) ==
  {store[i] : i \in {j \in DOMAIN store :
                       /\ store[j].product_id = id
                       /\ store[j].status = "approved"}}

\* GET /admin/reviews: no filter.
AdminGETReviews(store) ==
  {store[i] : i \in DOMAIN store}

RECURSIVE GCD(_, _)
GCD(a, b) == IF b = 0 THEN a ELSE GCD(b, a % b)

\* The quotient sum / count as a number: a fraction in lowest terms.
Quotient(sum, count) ==
  [num |-> sum \div GCD(sum, count), den |-> count \div GCD(sum, count)]

\* The average of a product without approved reviews.
NoAverage == [num |-> 0, den |-> 1]

RECURSIVE SumRatings(_, _)
SumRatings(store, ids) ==
  IF ids = {} THEN 0
  ELSE LET i == CHOOSE x \in ids : TRUE
       IN store[i].rating + SumRatings(store, ids \ {i})

\* The average taken over the product's reviews of every status.
getAverageRatingAnyStatus(store, product_id) ==
  LET rated == {i \in DOMAIN store : store[i].product_id = product_id}
  IN IF rated = {} THEN NoAverage
     ELSE Quotient(SumRatings(store, rated), Cardinality(rated))

\* service.getAverageRating(product_id): the mean rating of the product's
\* approved reviews, 0 when it has none.
getAverageRating(store, product_id) ==
  LET rated == {i \in DOMAIN store : /\ store[i].product_id = product_id
                                     /\ store[i].status = "approved"}
  IN IF rated = {} THEN NoAverage
     ELSE Quotient(SumRatings(store, rated), Cardinality(rated))

\* GET /store/products/:id/reviews: the response body's reviews and
\* average_rating.
StoreGET(store, id) ==
  [reviews |-> StoreGETReviews(store, id),
   average_rating |-> getAverageRating(store, id)]

\* ---------------------------------------------------------------- the runs
NoCur == [kind |-> "none"]
NoResponse == [status |-> 0]
NoInvocation == [kind |-> "none"]
NoListing == [pc |-> "idle"]
NoError == [step |-> 0, type |-> "none"]
NoSnap == [valid |-> FALSE]

\* History: the other runs' snapshots end when run r mutates the store.
Disturb(r, own) ==
  [q \in Runs |-> IF q = r THEN own ELSE NoSnap]

Taken(r, kind, id, arg) ==
  [valid |-> TRUE, phase |-> "read", kind |-> kind, id |-> id, arg |-> arg,
   idx |-> stepNo[r] + 1, store |-> reviews]

\* The compensation data of a step that returned none (undefined).
NoData == [absent |-> TRUE]

\* null, and the empty string, as compensation data.
NullData == [null |-> TRUE]
EmptyString == [empty |-> TRUE]

\* What the guard of a compensation function, if (!data) return, lets return.
Falsy(data) == data \in {NoData, NullData, EmptyString}

\* The engine records a step's compensation data and moves to the next step.
Commit(r, idx, kind, data) ==
  /\ committed' = [committed EXCEPT ![r] =
                     Append(@, [idx |-> idx, kind |-> kind, data |-> data])]
  /\ pc' = [pc EXCEPT ![r] = "running"]
  /\ cur' = [cur EXCEPT ![r] = NoCur]
  /\ UNCHANGED <<error, undone>>

\* A step's forward raised: forward progress stops, compensation begins.
Fail(r, step, type) ==
  /\ error' = [error EXCEPT ![r] = [step |-> step, type |-> type]]
  /\ pc' = [pc EXCEPT ![r] = "compensating"]
  /\ cur' = [cur EXCEPT ![r] = NoCur]
  /\ UNCHANGED <<committed, undone>>

CanStart(r) ==
  /\ pc[r] = "running"
  /\ stepNo[r] < stepBound[r]

\* The create forward taking the status from its caller.
NewReviewApproved(id, input) ==
  ProductReviewDTO(id, input.product_id, input.customer_id, input.rating,
                   input.title, input.content, "approved", NULL, 0, 0)

\* The record the create forward hands to service.create, under the id the
\* store assigns.
NewReview(id, input) ==
  ProductReviewDTO(id, input.product_id, input.customer_id, input.rating,
                   input.title, input.content, "pending", NULL, 0, 0)

\* The rating constraint accepting every rating.
ratingConstraintNone(rating) == TRUE

\* The constraint on a review's rating: 1 to 5.
ratingConstraint(rating) == rating \in 1..5

\* createProductReviewStep, forward; a review whose rating breaks the
\* constraint is refused with a ValidationError and nothing is stored.
createProductReviewStep(r, input) ==
  /\ CanStart(r)
  /\ nextId <= idBound
  /\ stepNo' = [stepNo EXCEPT ![r] = @ + 1]
  /\ IF ratingConstraint(input.rating)
     THEN LET review == NewReview(nextId, input)
          IN /\ reviews' = serviceCreate(reviews, review)
             /\ nextId' = nextId + 1
             /\ Commit(r, stepNo[r] + 1, "create", [id |-> review.id])
             /\ snap' = Disturb(r, [Taken(r, "create", review.id, NULL)
                                      EXCEPT !.phase = "fwd"])
     ELSE /\ Fail(r, stepNo[r] + 1, "ValidationError")
          /\ UNCHANGED <<reviews, nextId, snap>>
  /\ UNCHANGED <<besideReviews, everApproved, inverseErrors>>

\* The create compensation with the delete call lost.
createCompensateSkips(store, reviewId) == store

\* createProductReviewStep, compensation: delete by the returned id.
createProductReviewStepCompensate(store, reviewId) ==
  IF Falsy(reviewId) THEN store ELSE serviceDelete(store, reviewId.id)

\* The create compensation issuing its delete without the guard.
createCompensateCallsUnguarded(store, reviewId) == 1

\* createProductReviewStep, compensation: the store calls it issues.
createProductReviewStepCompensateCalls(store, reviewId) ==
  IF Falsy(reviewId) THEN 0 ELSE 1

\* The forwards with the retrieve lost: a step that names a missing review
\* commits with nothing done.
RetrieveUnchecked(r, kind, id, arg) ==
  /\ CanStart(r)
  /\ stepNo' = [stepNo EXCEPT ![r] = @ + 1]
  /\ IF id \in DOMAIN reviews
     THEN /\ cur' = [cur EXCEPT ![r] = [kind |-> kind, review_id |-> id,
                                        arg |-> arg, review |-> reviews[id]]]
          /\ pc' = [pc EXCEPT ![r] = "retrieved"]
          /\ snap' = [snap EXCEPT ![r] = Taken(r, kind, id, arg)]
          /\ UNCHANGED <<committed, error, undone>>
     ELSE /\ Commit(r, stepNo[r] + 1, kind, NoData)
          /\ UNCHANGED snap
  /\ UNCHANGED <<reviews, nextId, besideReviews, everApproved, inverseErrors>>

\* First store call of the approve, reject and delete forwards:
\* service.retrieve(input.review_id), which raises for a missing id.
Retrieve(r, kind, id, arg) ==
  /\ CanStart(r)
  /\ stepNo' = [stepNo EXCEPT ![r] = @ + 1]
  /\ IF id \in DOMAIN reviews
     THEN /\ cur' = [cur EXCEPT ![r] = [kind |-> kind, review_id |-> id,
                                        arg |-> arg, review |-> reviews[id]]]
          /\ pc' = [pc EXCEPT ![r] = "retrieved"]
          /\ snap' = [snap EXCEPT ![r] = Taken(r, kind, id, arg)]
          /\ UNCHANGED <<committed, error, undone>>
     ELSE /\ Fail(r, stepNo[r] + 1, "NotFound")
          /\ UNCHANGED snap
  /\ UNCHANGED <<reviews, nextId, besideReviews, everApproved, inverseErrors>>

approveProductReviewStepRetrieve(r, id) == Retrieve(r, "approve", id, NULL)

rejectProductReviewStepRetrieve(r, id, reason) == Retrieve(r, "reject", id, reason)

deleteProductReviewStepRetrieve(r, id) == Retrieve(r, "delete", id, NULL)

\* The patch the approve forward writes.
approvePatch == [status |-> "approved"]

\* The reject forward's patch with the reason lost.
rejectPatchStatusOnly(rejection_reason) == [status |-> "rejected"]

\* The patch the reject forward writes.
rejectPatch(rejection_reason) ==
  [status |-> "rejected", rejection_reason |-> rejection_reason]

\* Second store call of a forward: service.update, which raises for a
\* missing id; the step then returns its compensation data.
Update(r, kind, patch, data) ==
  /\ pc[r] = "retrieved"
  /\ cur[r].kind = kind
  /\ IF cur[r].review_id \in DOMAIN reviews
     THEN /\ reviews' = serviceUpdate(reviews, cur[r].review_id, patch)
          /\ Commit(r, stepNo[r], kind, data)
          /\ snap' = Disturb(r, IF snap[r].valid
                                THEN [snap[r] EXCEPT !.phase = "fwd"]
                                ELSE NoSnap)
          /\ everApproved' = IF kind = "approve"
                             THEN everApproved \cup {cur[r].review_id}
                             ELSE everApproved
     ELSE /\ Fail(r, stepNo[r], "NotFound")
          /\ snap' = [snap EXCEPT ![r] = NoSnap]
          /\ UNCHANGED <<reviews, everApproved>>
  /\ UNCHANGED <<nextId, stepNo, besideReviews, inverseErrors>>

\* approveProductReviewStep, forward after the retrieve.
approveProductReviewStep(r) ==
  /\ pc[r] = "retrieved"
  /\ Update(r, "approve", approvePatch,
            [review_id |-> cur[r].review.id,
             previousStatus |-> cur[r].review.status])

\* rejectProductReviewStep, forward after the retrieve.
rejectProductReviewStep(r) ==
  /\ pc[r] = "retrieved"
  /\ Update(r, "reject", rejectPatch(cur[r].arg),
            [review_id |-> cur[r].review.id,
             previousStatus |-> cur[r].review.status,
             previousReason |-> cur[r].review.rejection_reason])

\* deleteProductReviewStep, forward after the retrieve.
deleteProductReviewStep(r) ==
  /\ pc[r] = "retrieved"
  /\ cur[r].kind = "delete"
  /\ reviews' = deleteProductReviewStepForward(reviews, cur[r].review_id)
  /\ Commit(r, stepNo[r], "delete", cur[r].review)
  /\ snap' = Disturb(r, IF snap[r].valid
                        THEN [snap[r] EXCEPT !.phase = "fwd"]
                        ELSE NoSnap)
  /\ UNCHANGED <<nextId, stepNo, besideReviews, everApproved, inverseErrors>>

\* approveProductReviewStep, forward: the value it returns, the review being
\* the one it retrieved.
approveProductReviewStepOutput(review) ==
  [review |-> review, previousStatus |-> review.status]

\* rejectProductReviewStep, forward: the value it returns, the review being
\* the one it retrieved.
rejectProductReviewStepOutput(review) ==
  [review |-> review, previousStatus |-> review.status,
   previousReason |-> review.rejection_reason]

\* The patch the approve compensation writes.
approveCompensatePatch(data) == [status |-> data.previousStatus]

\* The reject compensation's patch restoring the status alone.
rejectCompensatePatchStatusOnly(data) == [status |-> data.previousStatus]

\* The patch the reject compensation writes.
rejectCompensatePatch(data) ==
  [status |-> data.previousStatus, rejection_reason |-> data.previousReason]

\* approveProductReviewStep, compensation; an update of a missing id raises
\* and changes nothing.
approveProductReviewStepCompensate(store, data) ==
  IF Falsy(data) THEN store
  ELSE IF data.review_id \in DOMAIN store
       THEN serviceUpdate(store, data.review_id, approveCompensatePatch(data))
       ELSE store

\* rejectProductReviewStep, compensation; an update of a missing id raises
\* and changes nothing.
rejectProductReviewStepCompensate(store, data) ==
  IF Falsy(data) THEN store
  ELSE IF data.review_id \in DOMAIN store
       THEN serviceUpdate(store, data.review_id, rejectCompensatePatch(data))
       ELSE store

\* The delete compensation creating the record as a new, pending one.
deleteCompensateAsNew(store, review) ==
  IF review = NoData THEN store
  ELSE IF review.id \in DOMAIN store THEN store
       ELSE serviceCreate(store, [review EXCEPT !.status = "pending",
                                                !.rejection_reason = NULL])

\* The delete compensation whose create stores the captured record whether
\* or not its id is in use.
deleteCompensateOverwrites(store, review) ==
  IF Falsy(review) THEN store ELSE serviceCreate(store, review)

\* deleteProductReviewStep, compensation: create the captured record again; a
\* create under an id in use raises and changes nothing.
deleteProductReviewStepCompensate(store, review) ==
  IF Falsy(review) THEN store
  ELSE IF review.id \in DOMAIN store THEN store ELSE serviceCreate(store, review)

\* createProductReviewStep, compensation: a delete of a missing id does not
\* raise.
createProductReviewStepCompensateRaises(store, reviewId) == FALSE

\* approveProductReviewStep, compensation: raises when its update finds no
\* review under the captured id.
approveProductReviewStepCompensateRaises(store, data) ==
  /\ ~Falsy(data)
  /\ data.review_id \notin DOMAIN store

\* rejectProductReviewStep, compensation: raises when its update finds no
\* review under the captured id.
rejectProductReviewStepCompensateRaises(store, data) ==
  /\ ~Falsy(data)
  /\ data.review_id \notin DOMAIN store

\* deleteProductReviewStep, compensation: raises when its create finds the
\* captured id in use.
deleteProductReviewStepCompensateRaises(store, review) ==
  /\ ~Falsy(review)
  /\ review.id \in DOMAIN store

\* approveProductReviewStep, compensation: the store calls it issues.
approveProductReviewStepCompensateCalls(store, data) ==
  IF Falsy(data) THEN 0 ELSE 1

\* rejectProductReviewStep, compensation: the store calls it issues.
rejectProductReviewStepCompensateCalls(store, data) ==
  IF Falsy(data) THEN 0 ELSE 1

\* deleteProductReviewStep, compensation: the store calls it issues.
deleteProductReviewStepCompensateCalls(store, review) ==
  IF Falsy(review) THEN 0 ELSE 1

\* The number of store calls a step's compensation function issues.
CompensationCalls(store, kind, data) ==
  CASE kind = "create" -> createProductReviewStepCompensateCalls(store, data)
    [] kind = "approve" -> approveProductReviewStepCompensateCalls(store, data)
    [] kind = "reject" -> rejectProductReviewStepCompensateCalls(store, data)
    [] kind = "delete" -> deleteProductReviewStepCompensateCalls(store, data)

\* Whether a step's compensation function raises on its data.
CompensationRaises(store, kind, data) ==
  CASE kind = "create" -> createProductReviewStepCompensateRaises(store, data)
    [] kind = "approve" -> approveProductReviewStepCompensateRaises(store, data)
    [] kind = "reject" -> rejectProductReviewStepCompensateRaises(store, data)
    [] kind = "delete" -> deleteProductReviewStepCompensateRaises(store, data)

\* The store after a step's compensation function ran on its data.
CompensationResult(store, kind, data) ==
  CASE kind = "create" -> createProductReviewStepCompensate(store, data)
    [] kind = "approve" -> approveProductReviewStepCompensate(store, data)
    [] kind = "reject" -> rejectProductReviewStepCompensate(store, data)
    [] kind = "delete" -> deleteProductReviewStepCompensate(store, data)

\* The engine compensating in commit order.
NextToUndoOldest(list) == 1

\* The committed pair the engine compensates next: the latest one.
NextToUndo(list) == Len(list)

\* The engine giving up at the first compensation function that raises, and
\* surfacing that error.
CompensateAborting(r) ==
  /\ pc[r] = "compensating"
  /\ committed[r] # <<>>
  /\ LET n == NextToUndo(committed[r])
         token == committed[r][n]
         raises == CompensationRaises(reviews, token.kind, token.data)
     IN /\ reviews' = CompensationResult(reviews, token.kind, token.data)
        /\ undone' = [undone EXCEPT ![r] = Append(@, token.idx)]
        /\ inverseErrors' = [inverseErrors EXCEPT ![r] =
                               IF raises THEN Append(@, token.idx) ELSE @]
        /\ committed' = [committed EXCEPT ![r] =
                           IF raises THEN <<>>
                           ELSE [i \in 1..(Len(@) - 1) |->
                                   IF i < n THEN @[i] ELSE @[i + 1]]]
        /\ error' = [error EXCEPT ![r] =
                       IF raises THEN [step |-> token.idx, type |-> "NotFound"]
                       ELSE @]
        /\ pc' = [pc EXCEPT ![r] = IF raises THEN "failed" ELSE @]
        /\ snap' = Disturb(r, NoSnap)
  /\ UNCHANGED <<nextId, stepNo, cur, besideReviews, everApproved>>

\* The engine invokes the compensation function of one committed step; an
\* error it raises is recorded and the run goes on compensating.
Compensate(r) ==
  /\ pc[r] = "compensating"
  /\ committed[r] # <<>>
  /\ LET n == NextToUndo(committed[r])
         token == committed[r][n]
     IN /\ reviews' = CompensationResult(reviews, token.kind, token.data)
        /\ undone' = [undone EXCEPT ![r] = Append(@, token.idx)]
        /\ inverseErrors' = [inverseErrors EXCEPT ![r] =
                               IF CompensationRaises(reviews, token.kind, token.data)
                               THEN Append(@, token.idx) ELSE @]
        /\ committed' = [committed EXCEPT ![r] =
                           [i \in 1..(Len(@) - 1) |-> IF i < n THEN @[i] ELSE @[i + 1]]]
        /\ snap' = Disturb(r, IF snap[r].valid /\ snap[r].phase = "fwd"
                                 /\ snap[r].idx = token.idx
                              THEN [snap[r] EXCEPT !.phase = "undone"]
                              ELSE NoSnap)
  /\ UNCHANGED <<nextId, pc, stepNo, cur, error, besideReviews, everApproved>>

\* Compensation is complete: the run surfaces the failed step's error.
CompensationDone(r) ==
  /\ pc[r] = "compensating"
  /\ committed[r] = <<>>
  /\ pc' = [pc EXCEPT ![r] = "failed"]
  /\ UNCHANGED <<reviews, nextId, stepNo, cur, committed, error, undone,
                 besideReviews, snap, everApproved, inverseErrors>>

\* Every step of the run succeeded: the run returns the last step's result.
Finish(r) ==
  /\ pc[r] = "running"
  /\ stepNo[r] >= 1
  /\ pc' = [pc EXCEPT ![r] = "done"]
  /\ committed' = [committed EXCEPT ![r] = <<>>]
  /\ snap' = [snap EXCEPT ![r] = NoSnap]
  /\ UNCHANGED <<reviews, nextId, stepNo, cur, error, undone, besideReviews,
                 everApproved, inverseErrors>>

\* The next request's run starts with fresh bookkeeping.
NewRun(r) ==
  /\ pc[r] \in {"done", "failed"}
  /\ pc' = [pc EXCEPT ![r] = "running"]
  /\ stepNo' = [stepNo EXCEPT ![r] = 0]
  /\ committed' = [committed EXCEPT ![r] = <<>>]
  /\ error' = [error EXCEPT ![r] = NoError]
  /\ undone' = [undone EXCEPT ![r] = <<>>]
  /\ snap' = [snap EXCEPT ![r] = NoSnap]
  /\ inverseErrors' = [inverseErrors EXCEPT ![r] = <<>>]
  /\ UNCHANGED <<reviews, nextId, cur, besideReviews, everApproved>>

\* ---------------------------------------------------------- image upload
ALLOWED_MIME_TYPES ==
  {"image/jpeg", "image/jpg", "image/png", "image/gif", "image/webp"}

\* A file name is a sequence of characters; "a", "png" and "PNG" stand for
\* runs of letters, "NUL" for the null byte.
ALLOWED_EXTENSIONS ==
  {<<".", "jpg">>, <<".", "jpeg">>, <<".", "png">>, <<".", "gif">>,
   <<".", "webp">>}

MAX_FILE_SIZE == 5 * 1024 * 1024
MAX_FILES == 5

NameChars == {"a", "png", "PNG", ".", "/", "\\", "NUL"}

\* The greatest index of s at or below n whose character is in S, 0 if none.
RECURSIVE LastIndexIn(_, _, _)
LastIndexIn(s, n, S) ==
  IF n = 0 THEN 0
  ELSE IF s[n] \in S THEN n ELSE LastIndexIn(s, n - 1, S)

\* path.basename (posix): the part after the last "/", trailing "/" ignored.
basename(filename) ==
  LET end == LastIndexIn(filename, Len(filename), NameChars \ {"/"})
      start == LastIndexIn(filename, end, {"/"}) + 1
  IN SubSeq(filename, start, end)

\* path.extname (posix): from the last "." of the base name to its end; empty
\* when there is no ".", when the only "." begins the base name, and for "..".
extname(filename) ==
  LET b == basename(filename)
      startDot == LastIndexIn(b, Len(b), {"."})
  IN IF startDot = 0 \/ startDot = 1 THEN <<>>
     ELSE IF b[1] = "." /\ startDot = Len(b) /\ startDot = 2 THEN <<>>
     ELSE SubSeq(b, startDot, Len(b))

\* String.prototype.toLowerCase, character by character.
toLowerCase(s) ==
  [i \in 1..Len(s) |-> IF s[i] = "PNG" THEN "png" ELSE s[i]]

\* The multer filter accepting a file that carries no MIME type.
fileFilterAnyMime(file) ==
  LET normalizedExt == toLowerCase(extname(file.originalname))
      allowedMime == file.mimetype = NULL \/ file.mimetype \in ALLOWED_MIME_TYPES
      allowedExt == normalizedExt \in ALLOWED_EXTENSIONS
  IN allowedMime /\ allowedExt

\* upload's fileFilter: TRUE when it calls back with (null, true), FALSE when
\* it calls back with an Error.
fileFilter(file) ==
  LET normalizedExt == toLowerCase(extname(file.originalname))
      allowedMime == file.mimetype # NULL /\ file.mimetype \in ALLOWED_MIME_TYPES
      allowedExt == normalizedExt \in ALLOWED_EXTENSIONS
  IN allowedMime /\ allowedExt

isAllowedImageFile(file) ==
  LET normalizedExt == toLowerCase(extname(file.originalname))
  IN IF normalizedExt \notin ALLOWED_EXTENSIONS THEN FALSE
     ELSE IF file.mimetype # NULL /\ file.mimetype \notin ALLOWED_MIME_TYPES
          THEN FALSE
     ELSE IF file.size > MAX_FILE_SIZE THEN FALSE
     ELSE TRUE

\* sanitizeFilename keeping the base name as it is.
sanitizeFilenameBaseOnly(filename) ==
  basename(filename)

\* sanitizeFilename: the base name without the characters of [\0\.\.\\/\\].
sanitizeFilename(filename) ==
  SelectSeq(basename(filename), LAMBDA c : c \notin {"NUL", ".", "\\", "/"})

\* multer with upload's limits and fileFilter: whether it hands the request on
\* to the handler, rather than ending it with an error.
multerAccepts(sent) ==
  /\ Len(sent) <= MAX_FILES
  /\ \A i \in 1..Len(sent) : /\ fileFilter(sent[i])
                              /\ sent[i].size <= MAX_FILE_SIZE

\* upload.array("files", MAX_FILES): the request passes to uploadImage with
\* req.files set, or multer ends it with an error, which the handler outside
\* this route answers.
multerArray ==
  /\ uploadPc = "received"
  /\ IF multerAccepts(files)
     THEN /\ uploadPc' = "accepted"
          /\ UNCHANGED response
     ELSE /\ uploadPc' = "responded"
          /\ \E status \in {400, 500} :
               response' = [status |-> status,
                            body |-> [message |-> "multer error"]]
  /\ UNCHANGED <<files, handed, uploads, unlinked, besideUpload>>

\* uploadImage's loop: the names of the files it skips.
invalidFiles(sent) ==
  LET skipped == SelectSeq([i \in 1..Len(sent) |-> i],
                           LAMBDA i : ~isAllowedImageFile(sent[i]))
  IN [k \in 1..Len(skipped) |-> sent[skipped[k]].originalname]

\* uploadImage's loop: the files it keeps, each under its sanitized name; part
\* is the file's place in the request.
validFiles(sent) ==
  LET kept == SelectSeq([i \in 1..Len(sent) |-> i],
                        LAMBDA i : isAllowedImageFile(sent[i]))
  IN [k \in 1..Len(kept) |->
        [originalname |-> sanitizeFilename(sent[kept[k]].originalname),
         mimetype |-> sent[kept[k]].mimetype,
         size |-> sent[kept[k]].size,
         part |-> kept[k]]]

\* The handler with its fs.unlinkSync calls lost.
unlinkSyncSkipped(parts) == {{}}

\* fs.unlinkSync(f.path) on the files at the places of parts: each call
\* returns or throws, and a throw is caught and logged.
unlinkSync(parts) ==
  {{[part |-> i, returned |-> outcome[i]] : i \in parts} :
     outcome \in [parts -> BOOLEAN]}

\* uploadImage up to the calls of fileService.upload: it deletes the temporary
\* file of every file it skips, answers 400 when every file was skipped, else
\* hands every kept file to the file service, all uploads started at once.
uploadImage ==
  /\ uploadPc = "accepted"
  /\ \E calls \in unlinkSync({i \in 1..Len(files) : ~isAllowedImageFile(files[i])}) :
       unlinked' = unlinked \cup calls
  /\ IF invalidFiles(files) # <<>> /\ validFiles(files) = <<>>
     THEN /\ uploadPc' = "responded"
          /\ response' =
               [status |-> 400,
                body |-> [error |-> "No valid files uploaded. All files were invalid.",
                          invalidFiles |-> invalidFiles(files)]]
          /\ UNCHANGED <<handed, uploads>>
     ELSE /\ uploadPc' = "uploading"
          /\ handed' = validFiles(files)
          /\ uploads' = [k \in 1..Len(validFiles(files)) |-> "inflight"]
          /\ UNCHANGED response
  /\ UNCHANGED <<files, besideUpload>>

\* fileService.upload(f) resolves for the k-th handed file: the file is
\* stored, and the then-callback deletes its temporary file.
fileServiceUploadResolves(k) ==
  /\ uploadPc \in {"uploading", "responded"}
  /\ k \in 1..Len(uploads)
  /\ uploads[k] = "inflight"
  /\ uploads' = [uploads EXCEPT ![k] = "resolved"]
  /\ \E calls \in unlinkSync({handed[k].part}) :
       unlinked' = unlinked \cup calls
  /\ UNCHANGED <<files, uploadPc, handed, response, besideUpload>>

\* fileService.upload(f) rejects for the k-th handed file: nothing is stored.
fileServiceUploadRejects(k) ==
  /\ uploadPc \in {"uploading", "responded"}
  /\ k \in 1..Len(uploads)
  /\ uploads[k] = "inflight"
  /\ uploads' = [uploads EXCEPT ![k] = "rejected"]
  /\ UNCHANGED <<files, uploadPc, handed, response, unlinked, besideUpload>>

\* What fileService.upload returns for a file.
uploadResult(file) == [url |-> file.originalname]

\* Every fileService.upload resolved: uploadImage answers 200.
uploadImageResolved ==
  /\ uploadPc = "uploading"
  /\ \A k \in 1..Len(uploads) : uploads[k] = "resolved"
  /\ uploadPc' = "responded"
  /\ LET result == [k \in 1..Len(handed) |-> uploadResult(handed[k])]
     IN response' =
          [status |-> 200,
           body |-> IF invalidFiles(files) # <<>>
                    THEN [uploads |-> result,
                          warnings |->
                            [message |-> "Some files were skipped due to invalid type or size",
                             invalidFiles |-> invalidFiles(files)]]
                    ELSE [uploads |-> result]]
  /\ UNCHANGED <<files, handed, uploads, unlinked, besideUpload>>

\* A fileService.upload rejected, so Promise.all did: uploadImage deletes the
\* temporary file of every kept file and answers 500.
uploadImageRejected ==
  /\ uploadPc = "uploading"
  /\ \E k \in 1..Len(uploads) : uploads[k] = "rejected"
  /\ uploadPc' = "responded"
  /\ \E calls \in unlinkSync({handed[k].part : k \in 1..Len(handed)}) :
       unlinked' = unlinked \cup calls
  /\ response' = [status |-> 500, body |-> [error |-> "Failed to upload files"]]
  /\ UNCHANGED <<files, handed, uploads, besideUpload>>

\* ------------------------------------------------- the listing requests
\* The ids of S in ascending order.
RECURSIVE SortedIds(_)
SortedIds(S) ==
  IF S = {} THEN <<>>
  ELSE LET least == CHOOSE i \in S : \A j \in S : i <= j
       IN <<least>> \o SortedIds(S \ {least})

\* req.queryConfig without pagination.
NoPagination == [paginated |-> FALSE]

Pagination(skip, take) == [paginated |-> TRUE, skip |-> skip, take |-> take]

\* The metadata of a query result that has none (undefined).
NoMetadata == [undefined |-> TRUE]

\* query.graph({ entity: "review", filters, ...req.queryConfig }) on the
\* reviews with the ids of matching: the page asked for, and, for a
\* paginated query, the metadata count, take and skip.
queryGraph(store, matching, queryConfig) ==
  LET all == [k \in 1..Cardinality(matching) |-> store[SortedIds(matching)[k]]]
  IN IF queryConfig.paginated
     THEN [data |-> SubSeq(all, queryConfig.skip + 1,
                           IF queryConfig.skip + queryConfig.take < Len(all)
                           THEN queryConfig.skip + queryConfig.take ELSE Len(all)),
           metadata |-> [count |-> Len(all), take |-> queryConfig.take,
                         skip |-> queryConfig.skip]]
     ELSE [data |-> all, metadata |-> NoMetadata]

\* The default of the admin route's destructuring of metadata.
AdminMetadataDefault == [count |-> 0, take |-> 20, skip |-> 0]

\* The storefront route destructuring with the admin route's default.
StoreMetadataDefaultAsAdmin == [count |-> 0, take |-> 20, skip |-> 0]

\* The default of the storefront route's destructuring of metadata.
StoreMetadataDefault == [count |-> 0, take |-> 10, skip |-> 0]

\* const { data: reviews, metadata: { count, take, skip } = default } = result
\* and the fields res.json is given from it.
ListBody(result, default) ==
  LET metadata == IF result.metadata = NoMetadata THEN default ELSE result.metadata
  IN [reviews |-> result.data, count |-> metadata.count,
      limit |-> metadata.take, offset |-> metadata.skip]

\* GET /admin/reviews: one query, then the response.
AdminGET(queryConfig) ==
  /\ listing.pc = "idle"
  /\ LET result == queryGraph(reviews, DOMAIN reviews, queryConfig)
     IN listing' = [pc |-> "responded", route |-> "admin",
                    queryConfig |-> queryConfig, result |-> result,
                    body |-> ListBody(result, AdminMetadataDefault)]
  /\ UNCHANGED <<reviews, nextId, pc, stepNo, cur, committed, error, undone,
                 stepBound, snap, everApproved, inverseErrors, idBound,
                 uploadVars, invoked, auto_approve>>

\* GET /store/products/:id/reviews up to the end of its await of query.graph;
\* average is (history) the average rating of the store the query read.
StoreGETQuery(id, queryConfig) ==
  /\ listing.pc = "idle"
  /\ LET matching == {i \in DOMAIN reviews : /\ reviews[i].product_id = id
                                              /\ reviews[i].status = "approved"}
     IN listing' = [pc |-> "queried", route |-> "store", id |-> id,
                    queryConfig |-> queryConfig,
                    result |-> queryGraph(reviews, matching, queryConfig),
                    average |-> getAverageRating(reviews, id)]
  /\ UNCHANGED <<reviews, nextId, pc, stepNo, cur, committed, error, undone,
                 stepBound, snap, everApproved, inverseErrors, idBound,
                 uploadVars, invoked, auto_approve>>

\* GET /store/products/:id/reviews from its await of getAverageRating(id) to
\* the response.
StoreGETRespond ==
  /\ listing.pc = "queried"
  /\ listing' =
       [pc |-> "responded", route |-> "store", id |-> listing.id,
        queryConfig |-> listing.queryConfig, result |-> listing.result,
        average |-> listing.average,
        body |-> [f \in {"reviews", "count", "limit", "offset", "average_rating"} |->
                    IF f = "average_rating"
                    THEN getAverageRating(reviews, listing.id)
                    ELSE ListBody(listing.result, StoreMetadataDefault)[f]]]
  /\ UNCHANGED <<reviews, nextId, pc, stepNo, cur, committed, error, undone,
                 stepBound, snap, everApproved, inverseErrors, idBound,
                 uploadVars, invoked, auto_approve>>

\* The next listing request arrives.
ListingDone ==
  /\ listing.pc = "responded"
  /\ listing' = NoListing
  /\ UNCHANGED <<reviews, nextId, pc, stepNo, cur, committed, error, undone,
                 stepBound, snap, everApproved, inverseErrors, idBound,
                 uploadVars, invoked, auto_approve>>

\* ------------------------------- a compensation function invoked directly
StepKinds == {"create", "approve", "reject", "delete"}

\* The data a step's compensation function may be handed when its forward
\* returned none: undefined or null, and for the create step, whose data is
\* the id string, the empty string.
AbsentData(kind) ==
  IF kind = "create" THEN {NoData, NullData, EmptyString} ELSE {NoData, NullData}

\* The data the forward of a step returns for a stored review.
ForwardData(kind, review) ==
  CASE kind = "create" -> [id |-> review.id]
    [] kind = "approve" -> [review_id |-> review.id, previousStatus |-> review.status]
    [] kind = "reject" -> [review_id |-> review.id,
                           previousStatus |-> review.status,
                           previousReason |-> review.rejection_reason]
    [] kind = "delete" -> review

\* A compensation function is invoked on data: the store calls it issues are
\* counted and the store before is kept.
InvokeCompensation(kind, data) ==
  /\ invoked = NoInvocation
  /\ invoked' = [kind |-> kind, data |-> data, before |-> reviews,
                  calls |-> CompensationCalls(reviews, kind, data)]
  /\ reviews' = CompensationResult(reviews, kind, data)
  /\ snap' = [q \in Runs |-> NoSnap]
  /\ UNCHANGED <<nextId, pc, stepNo, cur, committed, error, undone, stepBound,
                 everApproved, inverseErrors, idBound, uploadVars,
                 auto_approve, listing>>

\* The invoked compensation function has returned.
CompensationReturns ==
  /\ invoked # NoInvocation
  /\ invoked' = NoInvocation
  /\ UNCHANGED <<reviews, nextId, pc, stepNo, cur, committed, error, undone,
                 stepBound, snap, everApproved, inverseErrors, idBound,
                 uploadVars, auto_approve, listing>>

\* ------------------------------------------------- the plugin's workflows
\* Each workflow of the plugin is one step: a request that runs it commits
\* the step or fails in it, and nothing is left to compensate.
WorkflowFrame ==
  /\ snap' = [q \in Runs |-> NoSnap]
  /\ UNCHANGED <<pc, stepNo, cur, committed, error, undone, besideReviews,
                 inverseErrors>>

\* createProductReviewWorkflow: createProductReviewStep(input).
createProductReviewWorkflow(input) ==
  /\ nextId <= idBound
  /\ IF ratingConstraint(input.rating)
     THEN /\ reviews' = serviceCreate(reviews, NewReview(nextId, input))
          /\ nextId' = nextId + 1
          /\ WorkflowFrame
          /\ UNCHANGED everApproved
     ELSE UNCHANGED vars

\* approveProductReviewWorkflow: approveProductReviewStep(input).
approveProductReviewWorkflow(id) ==
  /\ id \in DOMAIN reviews
  /\ reviews' = serviceUpdate(reviews, id, approvePatch)
  /\ everApproved' = everApproved \cup {id}
  /\ WorkflowFrame
  /\ UNCHANGED nextId

\* rejectProductReviewWorkflow: rejectProductReviewStep(input).
rejectProductReviewWorkflow(id, reason) ==
  /\ id \in DOMAIN reviews
  /\ reviews' = serviceUpdate(reviews, id, rejectPatch(reason))
  /\ WorkflowFrame
  /\ UNCHANGED <<nextId, everApproved>>

\* deleteProductReviewWorkflow: deleteProductReviewStep(input).
deleteProductReviewWorkflow(id) ==
  /\ id \in DOMAIN reviews
  /\ reviews' = deleteProductReviewStepForward(reviews, id)
  /\ WorkflowFrame
  /\ UNCHANGED <<nextId, everApproved>>

CreateInput(p, c, rt) ==
  [product_id |-> p, customer_id |-> c, rating |-> rt, title |-> "t",
   content |-> "c"]

\* An anonymous review of one product, a customer's review of another, and
\* reviews with a rating below and above the scale.
CreateInputs ==
  {CreateInput("p1", NULL, 5), CreateInput("p2", "c1", 1),
   CreateInput("p1", NULL, 0), CreateInput("p1", NULL, 6)}

\* No upload request is being served.
UploadIdle ==
  /\ files = <<>>
  /\ uploadPc = "idle"
  /\ handed = <<>>
  /\ response = NoResponse
  /\ uploads = <<>>
  /\ unlinked = {}

\* No listing request is being served.
ListingIdle ==
  listing = NoListing

\* No compensation function is invoked on its own.
InvokedIdle ==
  invoked = NoInvocation

\* The plugin with an empty store and no request, whatever its options.
InitPlugin ==
  /\ UploadIdle
  /\ InvokedIdle
  /\ ListingIdle
  /\ reviews = <<>>
  /\ nextId = 1
  /\ pc = [r \in Runs |-> "running"]
  /\ stepNo = [r \in Runs |-> 0]
  /\ cur = [r \in Runs |-> NoCur]
  /\ committed = [r \in Runs |-> <<>>]
  /\ error = [r \in Runs |-> NoError]
  /\ undone = [r \in Runs |-> <<>>]
  /\ snap = [r \in Runs |-> NoSnap]
  /\ everApproved = {}
  /\ inverseErrors = [r \in Runs |-> <<>>]

\* The plugin as configured by default: auto_approve false.
InitRuns ==
  /\ InitPlugin
  /\ auto_approve = FALSE

\* Run A composes up to MaxSteps steps, beside requests that run the plugin's
\* own workflows.
Init ==
  /\ InitRuns
  /\ idBound = MaxReviews
  /\ stepBound = [r \in Runs |-> IF r = "A" THEN MaxSteps ELSE 0]

\* Runs A and B, each composing up to MaxSteps steps, on a store that holds
\* one pending review, the only one ever created.
InitTwo ==
  /\ idBound = MaxReviews
  /\ UploadIdle
  /\ InvokedIdle
  /\ ListingIdle
  /\ auto_approve = FALSE
  /\ reviews = serviceCreate(<<>>, NewReview(1, CreateInput("p1", NULL, 5)))
  /\ nextId = 2
  /\ pc = [r \in Runs |-> "running"]
  /\ stepNo = [r \in Runs |-> 0]
  /\ cur = [r \in Runs |-> NoCur]
  /\ committed = [r \in Runs |-> <<>>]
  /\ error = [r \in Runs |-> NoError]
  /\ undone = [r \in Runs |-> <<>>]
  /\ snap = [r \in Runs |-> NoSnap]
  /\ everApproved = {}
  /\ inverseErrors = [r \in Runs |-> <<>>]
  /\ stepBound = [r \in Runs |-> MaxSteps]

\* Run A alone, composing up to MaxSeqSteps steps.
InitSeq ==
  /\ InitRuns
  /\ idBound = MaxReviews
  /\ stepBound = [r \in Runs |-> IF r = "A" THEN MaxSeqSteps ELSE 0]

\* What a composed run does beside creating: moderation and delete steps,
\* compensation, and its end.
ModerationRun(r) ==
  \/ \E id \in ReviewIdInputs : approveProductReviewStepRetrieve(r, id)
  \/ approveProductReviewStep(r)
  \/ \E id \in ReviewIdInputs, reason \in Reasons :
       rejectProductReviewStepRetrieve(r, id, reason)
  \/ rejectProductReviewStep(r)
  \/ \E id \in ReviewIdInputs : deleteProductReviewStepRetrieve(r, id)
  \/ deleteProductReviewStep(r)
  \/ Compensate(r)
  \/ CompensationDone(r)
  \/ Finish(r)
  \/ NewRun(r)

NextRuns ==
  \E r \in Runs :
    \/ \E input \in CreateInputs : createProductReviewStep(r, input)
    \/ ModerationRun(r)

NextModeration ==
  \E r \in Runs : ModerationRun(r)

NextWorkflows ==
  \/ \E input \in CreateInputs : createProductReviewWorkflow(input)
  \/ \E id \in Ids : approveProductReviewWorkflow(id)
  \/ \E id \in Ids, reason \in Reasons : rejectProductReviewWorkflow(id, reason)
  \/ \E id \in Ids : deleteProductReviewWorkflow(id)

Next == NextRuns \/ NextWorkflows

Spec == Init /\ [][Next]_vars

SpecSeq == InitSeq /\ [][NextRuns]_vars

\* Two composed runs that moderate and delete the stored review.
SpecTwo == InitTwo /\ [][NextModeration]_vars

NextBesideDelete ==
  \/ NextRuns
  \/ \E id \in Ids : deleteProductReviewWorkflow(id)

\* Run A, composing up to MaxSeqSteps steps, beside requests that delete
\* reviews.
SpecBesideDelete == InitSeq /\ [][NextBesideDelete]_vars

\* The compensation functions invoked on their own, with data a forward
\* returned or with none, on the stores the plugin's workflows produce.
InitInvoked ==
  /\ InitRuns
  /\ idBound = MaxReviews
  /\ stepBound = [r \in Runs |-> 0]

NextInvoked ==
  \/ \E kind \in StepKinds : \E data \in AbsentData(kind) :
       InvokeCompensation(kind, data)
  \/ \E kind \in StepKinds : \E id \in DOMAIN reviews :
       InvokeCompensation(kind, ForwardData(kind, reviews[id]))
  \/ CompensationReturns
  \/ (invoked = NoInvocation /\ NextWorkflows)

SpecInvoked == InitInvoked /\ [][NextInvoked]_vars

\* The file names of up to MaxNameLen characters.
FileNames ==
  UNION {[1..n -> NameChars] : n \in 1..MaxNameLen}

\* The files a request may carry: any name, with an allowed MIME type, another
\* or none, of the greatest size allowed or one byte more.
Files ==
  [originalname : FileNames,
   mimetype : {"image/png", "text/plain", NULL},
   size : {MAX_FILE_SIZE, MAX_FILE_SIZE + 1}]

File(name, mimetype, size) ==
  [originalname |-> name, mimetype |-> mimetype, size |-> size]

\* The files sent along with the first: an image, a file with another
\* extension, an image without MIME type, and an image one byte too large.
CompanionFiles ==
  {File(<<"a", ".", "png">>, "image/png", MAX_FILE_SIZE),
   File(<<"a", ".", "a">>, "image/png", MAX_FILE_SIZE),
   File(<<"a", ".", "png">>, NULL, MAX_FILE_SIZE),
   File(<<"a", ".", "png">>, "image/png", MAX_FILE_SIZE + 1)}

\* The upload requests: no file, or any file followed by companions.
UploadRequests ==
  {<<>>} \cup
  {<<f>> \o rest : f \in Files,
                   rest \in UNION {[1..n -> CompanionFiles] :
                                     n \in 0..(MaxUploadFiles - 1)}}

\* One upload request has arrived; no review is stored and no run started.
InitUpload ==
  /\ files \in UploadRequests
  /\ uploadPc = "received"
  /\ handed = <<>>
  /\ response = NoResponse
  /\ uploads = <<>>
  /\ unlinked = {}
  /\ InvokedIdle
  /\ ListingIdle
  /\ auto_approve = FALSE
  /\ idBound = MaxReviews
  /\ stepBound = [r \in Runs |-> 0]
  /\ reviews = <<>>
  /\ nextId = 1
  /\ pc = [r \in Runs |-> "running"]
  /\ stepNo = [r \in Runs |-> 0]
  /\ cur = [r \in Runs |-> NoCur]
  /\ committed = [r \in Runs |-> <<>>]
  /\ error = [r \in Runs |-> NoError]
  /\ undone = [r \in Runs |-> <<>>]
  /\ snap = [r \in Runs |-> NoSnap]
  /\ everApproved = {}
  /\ inverseErrors = [r \in Runs |-> <<>>]

NextUpload ==
  \/ multerArray
  \/ uploadImage
  \/ \E k \in 1..MaxUploadFiles : fileServiceUploadResolves(k)
  \/ \E k \in 1..MaxUploadFiles : fileServiceUploadRejects(k)
  \/ uploadImageResolved
  \/ uploadImageRejected

SpecUpload == InitUpload /\ [][NextUpload]_vars

\* Runs A and B, each composing up to MaxSteps steps, on an empty store.
InitBoth ==
  /\ InitRuns
  /\ idBound = MaxReviews
  /\ stepBound = [r \in Runs |-> MaxSteps]

\* Two composed runs that create, approve and delete reviews.
NextIds ==
  \E r \in Runs :
    \/ \E input \in CreateInputs : createProductReviewStep(r, input)
    \/ \E id \in ReviewIdInputs : approveProductReviewStepRetrieve(r, id)
    \/ approveProductReviewStep(r)
    \/ \E id \in ReviewIdInputs : deleteProductReviewStepRetrieve(r, id)
    \/ deleteProductReviewStep(r)
    \/ Compensate(r)
    \/ CompensationDone(r)
    \/ Finish(r)
    \/ NewRun(r)

SpecIds == InitBoth /\ [][NextIds]_vars

\* The query configurations of a listing request: none, and pages of one and
\* two reviews.
QueryConfigs ==
  {NoPagination, Pagination(0, 1), Pagination(1, 1), Pagination(0, 2)}

\* A store of two pending reviews of one product, rated 5 and 3, no composed
\* run and no listing request.
InitListing ==
  /\ UploadIdle
  /\ InvokedIdle
  /\ ListingIdle
  /\ auto_approve = FALSE
  /\ idBound = MaxReviews
  /\ stepBound = [r \in Runs |-> 0]
  /\ reviews = serviceCreate(serviceCreate(<<>>, NewReview(1, CreateInput("p1", NULL, 5))),
                             NewReview(2, CreateInput("p1", "c1", 3)))
  /\ nextId = 3
  /\ pc = [r \in Runs |-> "running"]
  /\ stepNo = [r \in Runs |-> 0]
  /\ cur = [r \in Runs |-> NoCur]
  /\ committed = [r \in Runs |-> <<>>]
  /\ error = [r \in Runs |-> NoError]
  /\ undone = [r \in Runs |-> <<>>]
  /\ snap = [r \in Runs |-> NoSnap]
  /\ everApproved = {}
  /\ inverseErrors = [r \in Runs |-> <<>>]

\* Listing requests beside requests that moderate and delete the reviews.
NextListing ==
  \/ \E queryConfig \in QueryConfigs : AdminGET(queryConfig)
  \/ \E id \in Products, queryConfig \in QueryConfigs : StoreGETQuery(id, queryConfig)
  \/ StoreGETRespond
  \/ ListingDone
  \/ \E id \in Ids : approveProductReviewWorkflow(id)
  \/ \E id \in Ids, reason \in Reasons : rejectProductReviewWorkflow(id, reason)
  \/ \E id \in Ids : deleteProductReviewWorkflow(id)

SpecListing == InitListing /\ [][NextListing]_vars

\* The plugin registered with either value of the option auto_approve, which
\* the plugin's entry point passes on unread; no composed run.
InitOptions ==
  /\ InitPlugin
  /\ auto_approve \in BOOLEAN
  /\ idBound = MaxReviews
  /\ stepBound = [r \in Runs |-> 0]

SpecOptions == InitOptions /\ [][NextWorkflows]_vars

\* uploadImage called with any files as req.files, the multer filter not in
\* front of it.
InitHandler ==
  /\ files \in UploadRequests
  /\ uploadPc = "accepted"
  /\ handed = <<>>
  /\ response = NoResponse
  /\ uploads = <<>>
  /\ unlinked = {}
  /\ InvokedIdle
  /\ ListingIdle
  /\ auto_approve = FALSE
  /\ idBound = MaxReviews
  /\ stepBound = [r \in Runs |-> 0]
  /\ reviews = <<>>
  /\ nextId = 1
  /\ pc = [r \in Runs |-> "running"]
  /\ stepNo = [r \in Runs |-> 0]
  /\ cur = [r \in Runs |-> NoCur]
  /\ committed = [r \in Runs |-> <<>>]
  /\ error = [r \in Runs |-> NoError]
  /\ undone = [r \in Runs |-> <<>>]
  /\ snap = [r \in Runs |-> NoSnap]
  /\ everApproved = {}
  /\ inverseErrors = [r \in Runs |-> <<>>]

NextHandler ==
  \/ uploadImage
  \/ \E k \in 1..MaxUploadFiles : fileServiceUploadResolves(k)
  \/ \E k \in 1..MaxUploadFiles : fileServiceUploadRejects(k)
  \/ uploadImageResolved
  \/ uploadImageRejected

SpecHandler == InitHandler /\ [][NextHandler]_vars

\* Reviews of one product rated 5, 3 and 4, and a review of another product.
RatedInputs ==
  {CreateInput("p1", NULL, 5), CreateInput("p1", "c1", 3),
   CreateInput("p1", "c1", 4), CreateInput("p2", "c1", 1)}

\* No composed run: up to MaxRated reviews, created and moderated by the
\* plugin's workflows.
InitReviews ==
  /\ InitRuns
  /\ idBound = MaxRated
  /\ stepBound = [r \in Runs |-> 0]

NextReviews ==
  \/ \E input \in RatedInputs : createProductReviewWorkflow(input)
  \/ \E id \in 1..MaxRated : approveProductReviewWorkflow(id)
  \/ \E id \in 1..MaxRated, reason \in Reasons :
       rejectProductReviewWorkflow(id, reason)
  \/ \E id \in 1..MaxRated : deleteProductReviewWorkflow(id)

SpecReviews == InitReviews /\ [][NextReviews]_vars

\* ------------------------------------------------------------- properties
\* The snapshot of run r: the store as it was before the forward of r's latest
\* step, with nothing but that forward (and its compensation) since.
Just(r, kind, phase) ==
  /\ snap[r].valid
  /\ snap[r].kind = kind
  /\ snap[r].phase = phase

\* C1: every review the storefront listing of a product returns is a stored
\* review of that product with status approved; a pending or rejected review
\* is in no listing; a listed review is one an approve was applied to.
StoreListsOnlyApproved ==
  /\ \A p \in Products : \A rv \in StoreGETReviews(reviews, p) :
       /\ rv.id \in DOMAIN reviews
       /\ reviews[rv.id] = rv
       /\ rv.product_id = p
       /\ rv.status = "approved"
       /\ rv.id \in everApproved
  /\ \A id \in DOMAIN reviews :
       reviews[id].status \in {"pending", "rejected"} =>
         \A p \in Products : reviews[id] \notin StoreGETReviews(reviews, p)

\* C1 witness: an approved review is listed beside an unapproved review of the
\* same product, which is not.
StoreListsOnlyApprovedWitness ==
  \E i, j \in DOMAIN reviews :
    /\ reviews[i].product_id = reviews[j].product_id
    /\ reviews[i] \in StoreGETReviews(reviews, reviews[i].product_id)
    /\ reviews[j].status = "pending"
    /\ reviews[j] \notin StoreGETReviews(reviews, reviews[i].product_id)

\* C2: whenever the store assigns a new id (the create forward ran, in a
\* composed run or in the create workflow), the review stored under it is
\* pending with both counters 0.
CreateYieldsPending ==
  [][nextId' # nextId =>
       /\ nextId \in DOMAIN reviews'
       /\ reviews'[nextId].status = "pending"
       /\ reviews'[nextId].helpful_count = 0
       /\ reviews'[nextId].reported_count = 0]_vars

\* C2 witness: the create step has just stored an anonymous review.
CreateYieldsPendingWitness ==
  \E r \in Runs :
    /\ Just(r, "create", "fwd")
    /\ reviews[snap[r].id].customer_id = NULL
    /\ reviews[snap[r].id].status = "pending"

\* C3 (as claimed): right after the approve forward the review is approved and
\* its rejection_reason is null.
ApproveClearsReason ==
  \A r \in Runs :
    Just(r, "approve", "fwd") =>
      /\ reviews[snap[r].id].status = "approved"
      /\ reviews[snap[r].id].rejection_reason = NULL

\* C4: a reject forward that retrieved the review finds it for its update, and
\* right after the forward the review is rejected with the given reason.
RejectSetsStatusAndReason ==
  \A r \in Runs :
    /\ Just(r, "reject", "read") => snap[r].id \in DOMAIN reviews
    /\ Just(r, "reject", "fwd") =>
         /\ reviews[snap[r].id].status = "rejected"
         /\ reviews[snap[r].id].rejection_reason = snap[r].arg

\* C4 witness: an approved review has just been rejected.
RejectSetsStatusAndReasonWitness ==
  \E r \in Runs :
    /\ Just(r, "reject", "fwd")
    /\ snap[r].store[snap[r].id].status = "approved"
    /\ reviews[snap[r].id].status = "rejected"

\* C5 (as claimed): a stored review has a rejection_reason exactly when it is
\* rejected.
ReasonIffRejected ==
  \A id \in DOMAIN reviews :
    (reviews[id].status = "rejected") <=> (reviews[id].rejection_reason # NULL)

\* The steps 1..k-1 in reverse commit order.
ReverseOrder(k) == [i \in 1..(k - 1) |-> k - i]

IsPrefix(s, t) ==
  /\ Len(s) <= Len(t)
  /\ \A i \in 1..Len(s) : s[i] = t[i]

\* C6: a run compensates only after a step k failed; it then starts no further
\* step, surfaces step k's error, and invokes the compensations of steps
\* k-1, ..., 1 in that order, each once.
CompensatesInReverseOrder ==
  \A r \in Runs :
    /\ pc[r] \in {"running", "retrieved", "done"} =>
         /\ undone[r] = <<>>
         /\ error[r] = NoError
    /\ pc[r] \in {"compensating", "failed"} =>
         /\ error[r].step = stepNo[r]
         /\ error[r].type \in {"NotFound", "ValidationError"}
         /\ IsPrefix(undone[r], ReverseOrder(stepNo[r]))
         /\ Len(undone[r]) + Len(committed[r]) = stepNo[r] - 1
    /\ pc[r] = "failed" => undone[r] = ReverseOrder(stepNo[r])

\* C6 witness: a run failed in its third step or later and compensated.
CompensatesInReverseOrderWitness ==
  \E r \in Runs :
    /\ pc[r] = "failed"
    /\ Len(undone[r]) >= 2
    /\ error[r].step = Len(undone[r]) + 1

\* C7: after the approve or reject forward and then its compensation, with no
\* other store operation since the forward began, the review's status and
\* rejection_reason are what they were before the forward.
UndoRestoresStatusAndReason ==
  \A r \in Runs : \A kind \in {"approve", "reject"} :
    Just(r, kind, "undone") =>
      /\ snap[r].id \in DOMAIN reviews
      /\ reviews[snap[r].id].status = snap[r].store[snap[r].id].status
      /\ reviews[snap[r].id].rejection_reason =
           snap[r].store[snap[r].id].rejection_reason

\* C7 witness: a review rejected for one reason was rejected for another, and
\* that was compensated.
UndoRestoresStatusAndReasonWitness ==
  \E r \in Runs :
    /\ Just(r, "reject", "undone")
    /\ reviews[snap[r].id].status = "rejected"
    /\ reviews[snap[r].id].rejection_reason # snap[r].arg

\* The ids of the delete forwards run r committed and has not compensated.
DeletedBy(r) ==
  {committed[r][i].data.id :
     i \in {j \in 1..Len(committed[r]) : committed[r][j].kind = "delete"}}

\* C8 (as claimed): while a delete a run committed is not compensated, its
\* review is not stored (a retrieve fails) and is in neither listing.
DeletedStaysGone ==
  \A r \in Runs : \A id \in DeletedBy(r) :
    /\ id \notin DOMAIN reviews
    /\ \A rv \in AdminGETReviews(reviews) : rv.id # id
    /\ \A p \in Products : \A rv \in StoreGETReviews(reviews, p) : rv.id # id

\* C11: a step of approve, reject or delete that names a review_id the store
\* does not hold fails with NotFound in its retrieve: the store is unchanged,
\* nothing is committed for it, and the run goes to compensation without
\* issuing the step's update or delete.
MissingTargetFailsCleanly ==
  [][\A r \in Runs : \A id \in ReviewIdInputs :
       (/\ id \notin DOMAIN reviews
        /\ \/ approveProductReviewStepRetrieve(r, id)
           \/ \E reason \in Reasons : rejectProductReviewStepRetrieve(r, id, reason)
           \/ deleteProductReviewStepRetrieve(r, id))
       => /\ reviews' = reviews
          /\ pc'[r] = "compensating"
          /\ error'[r] = [step |-> stepNo'[r], type |-> "NotFound"]
          /\ committed'[r] = committed[r]]_vars

\* C11 witness: a run that committed a step failed with NotFound in a later
\* one, on a store that holds a review.
MissingTargetFailsCleanlyWitness ==
  /\ pc["A"] = "compensating"
  /\ error["A"].type = "NotFound"
  /\ committed["A"] # <<>>
  /\ DOMAIN reviews # {}

\* C12: when the compensation of a committed step has raised, the run is still
\* compensating or has failed, the error it surfaces is that of the step whose
\* forward failed (never a compensated step's), compensation goes on in
\* reverse commit order, and a failed run has invoked the compensation of
\* every step it committed.
InverseFailureKeepsCompensating ==
  \A r \in Runs :
    inverseErrors[r] # <<>> =>
      /\ pc[r] \in {"compensating", "failed"}
      /\ error[r].step = stepNo[r]
      /\ \A i \in 1..Len(inverseErrors[r]) : inverseErrors[r][i] # error[r].step
      /\ IsPrefix(undone[r], ReverseOrder(stepNo[r]))
      /\ Len(undone[r]) + Len(committed[r]) = stepNo[r] - 1
      /\ pc[r] = "failed" => undone[r] = ReverseOrder(stepNo[r])

\* C12 witness: the first compensation a run invoked raised, the run then
\* invoked another, which removed the review the run had created, and failed
\* with the error of its third step.
InverseFailureKeepsCompensatingWitness ==
  \E r \in Runs :
    /\ pc[r] = "failed"
    /\ undone[r] = <<2, 1>>
    /\ inverseErrors[r] = <<2>>
    /\ error[r].step = 3
    /\ nextId > 1
    /\ reviews = <<>>

\* C13: a create whose rating is outside 1..5 fails with a ValidationError:
\* no id is assigned and the store is unchanged.
BadRatingCreatesNothing ==
  [][\A r \in Runs : \A input \in CreateInputs :
       (input.rating \notin 1..5 /\ createProductReviewStep(r, input))
       => /\ reviews' = reviews
          /\ nextId' = nextId
          /\ pc'[r] = "compensating"
          /\ error'[r] = [step |-> stepNo'[r], type |-> "ValidationError"]]_vars

\* C13 witness: a run that stored a review failed with a ValidationError in a
\* later create.
BadRatingCreatesNothingWitness ==
  \E r \in Runs :
    /\ pc[r] = "compensating"
    /\ error[r].type = "ValidationError"
    /\ \E i \in 1..Len(committed[r]) : committed[r][i].kind = "create"

RECURSIVE SumOfRatings(_)
SumOfRatings(listed) ==
  IF listed = {} THEN 0
  ELSE LET rv == CHOOSE x \in listed : TRUE
       IN rv.rating + SumOfRatings(listed \ {rv})

\* The stored reviews of product p with status st are rated with the ratings
\* of S, one review for each.
RatingsOf(p, st, S) ==
  \A rt \in 1..5 :
    Cardinality({i \in DOMAIN reviews : /\ reviews[i].product_id = p
                                        /\ reviews[i].status = st
                                        /\ reviews[i].rating = rt})
      = IF rt \in S THEN 1 ELSE 0

\* C14: the average_rating a storefront request returns is the mean rating of
\* the reviews it lists (the product's approved, stored reviews): times their
\* number it is the sum of their ratings, and 0 when none is listed. With
\* ratings 5, 3, 4 approved it is 4; with the 3 not approved it is 9/2.
AverageOverApproved ==
  \A p \in Products :
    LET body == StoreGET(reviews, p)
        avg == body.average_rating
    IN /\ body.reviews = {} => avg = [num |-> 0, den |-> 1]
       /\ avg.num * Cardinality(body.reviews) =
            avg.den * SumOfRatings(body.reviews)
       /\ RatingsOf(p, "approved", {5, 3, 4}) => avg = [num |-> 4, den |-> 1]
       /\ RatingsOf(p, "approved", {5, 4}) => avg = [num |-> 9, den |-> 2]

\* C14 witness: of a product's reviews rated 5, 3 and 4, the one rated 3 is
\* rejected and the others are approved.
AverageOverApprovedWitness ==
  \E p \in Products :
    /\ RatingsOf(p, "approved", {5, 4})
    /\ RatingsOf(p, "rejected", {3})
    /\ StoreGET(reviews, p).average_rating = [num |-> 9, den |-> 2]

\* C19 (as claimed): no compensation function raises when the engine invokes
\* it with the data its forward returned, whatever other requests did to the
\* store in between.
InverseNeverRaises ==
  \A r \in Runs : inverseErrors[r] = <<>>

\* C20: a compensation function invoked with absent or empty data (undefined,
\* null, or the empty id string) issues no store call and leaves the store as
\* it was.
AbsentDataIsNoOp ==
  (invoked # NoInvocation /\ Falsy(invoked.data)) =>
    /\ invoked.calls = 0
    /\ reviews = invoked.before

\* C20 witness: the delete compensation was invoked with null on a store
\* that holds a review.
AbsentDataIsNoOpWitness ==
  /\ invoked # NoInvocation
  /\ invoked.kind = "delete"
  /\ invoked.data = NullData
  /\ DOMAIN reviews # {}

\* A file passes the three checks: extension, MIME type and size.
PassesChecks(file) ==
  /\ toLowerCase(extname(file.originalname)) \in ALLOWED_EXTENSIONS
  /\ file.mimetype \in ALLOWED_MIME_TYPES
  /\ file.size <= MAX_FILE_SIZE

\* The names of the request's files that fail a check, in request order.
FailingNames ==
  LET failing == SelectSeq([i \in 1..Len(files) |-> i],
                           LAMBDA i : ~PassesChecks(files[i]))
  IN [k \in 1..Len(failing) |-> files[failing[k]].originalname]

\* The file service failed the request.
StorageFailed ==
  /\ response.status = 500
  /\ "error" \in DOMAIN response.body

\* C15 (as claimed): a request with v >= 1 files that pass the checks and
\* i >= 1 that fail one, the file service not failing, is answered 200 with v
\* uploads and warnings.invalidFiles naming the i failing files.
MixedUploadSucceeds ==
  (/\ uploadPc = "responded"
   /\ Len(FailingNames) >= 1
   /\ Len(files) - Len(FailingNames) >= 1
   /\ ~StorageFailed)
  => /\ response.status = 200
     /\ DOMAIN response.body = {"uploads", "warnings"}
     /\ Len(response.body.uploads) = Len(files) - Len(FailingNames)
     /\ response.body.warnings.invalidFiles = FailingNames

\* C16 (as claimed): a request whose N >= 1 files all fail a check is answered
\* 400 with a body that has no uploads key and lists the files' names, and
\* no file is handed to the file service.
AllInvalidAnswered400 ==
  (/\ uploadPc = "responded"
   /\ Len(files) >= 1
   /\ Len(FailingNames) = Len(files))
  => /\ response.status = 400
     /\ "uploads" \notin DOMAIN response.body
     /\ "invalidFiles" \in DOMAIN response.body
     /\ response.body.invalidFiles = FailingNames
     /\ handed = <<>>

\* C17: every file handed to the file service is a file of the request that
\* passes all three checks: extension (in any case) among the allowed ones,
\* a MIME type that is present and allowed, and a size of at most 5 MB.
OnlyCheckedFilesHanded ==
  \A k \in 1..Len(handed) :
    /\ handed[k].part \in 1..Len(files)
    /\ PassesChecks(files[handed[k].part])
    /\ files[handed[k].part].mimetype # NULL
    /\ files[handed[k].part].size <= 5242880

\* C17 witness: a file of exactly 5 MB with an upper-case extension was handed
\* to the file service.
OnlyCheckedFilesHandedWitness ==
  \E k \in 1..Len(handed) :
    /\ extname(files[handed[k].part].originalname) = <<".", "PNG">>
    /\ files[handed[k].part].size = MAX_FILE_SIZE

\* The characters that stand for letters.
Letters == {"a", "png", "PNG"}

\* C18: the name of every file handed to the file service is the base name of
\* the name it was sent under with nothing but letters kept: it holds no "/",
\* no "\", no null byte and no "..".
HandedNamesAreSafe ==
  \A k \in 1..Len(handed) :
    LET name == handed[k].originalname
        sent == files[handed[k].part].originalname
    IN /\ name = SelectSeq(basename(sent), LAMBDA c : c \in Letters)
       /\ \A i \in 1..Len(name) : name[i] \notin {"/", "\\", "NUL"}
       /\ \A i \in 1..(Len(name) - 1) : ~(name[i] = "." /\ name[i + 1] = ".")

\* C18 witness: a file sent under a name with a "/", and ".." in its base
\* name, was handed to the file service.
HandedNamesAreSafeWitness ==
  \E k \in 1..Len(handed) :
    LET sent == files[handed[k].part].originalname
    IN /\ \E i \in 1..Len(sent) : sent[i] = "/"
       /\ \E i \in 1..(Len(basename(sent)) - 1) :
            basename(sent)[i] = "." /\ basename(sent)[i + 1] = "."

\* C21: every listing response carries count, limit and offset; limit is the
\* query's take and offset its skip, and for a query result without metadata
\* they are count 0, offset 0 and limit 20 (admin) or 10 (storefront).
ListingsCarryPagination ==
  listing.pc = "responded" =>
    /\ {"count", "limit", "offset"} \subseteq DOMAIN listing.body
    /\ listing.queryConfig.paginated =>
         /\ listing.body.limit = listing.queryConfig.take
         /\ listing.body.offset = listing.queryConfig.skip
         /\ listing.body.count = listing.result.metadata.count
    /\ listing.result.metadata = NoMetadata =>
         /\ listing.body.count = 0
         /\ listing.body.offset = 0
         /\ listing.body.limit = IF listing.route = "admin" THEN 20 ELSE 10

\* C21 witness: a storefront listing answered from a query result without
\* metadata, the product having an approved review.
ListingsCarryPaginationWitness ==
  /\ listing.pc = "responded"
  /\ listing.route = "store"
  /\ listing.result.metadata = NoMetadata
  /\ listing.result.data # <<>>

\* C22 (as claimed): a review is created approved when the option
\* auto_approve is true, and pending when it is false.
AutoApproveApproves ==
  [][nextId' = nextId + 1 =>
       reviews'[nextId].status = IF auto_approve THEN "approved" ELSE "pending"]_vars

\* The update of run r's approve or reject forward acts in this step.
ModerationForwardActs(r) ==
  /\ pc[r] = "retrieved"
  /\ cur[r].kind \in {"approve", "reject"}
  /\ pc'[r] # "retrieved"

\* The compensation of an approve or reject step of run r acts in this step.
ModerationCompensationActs(r) ==
  /\ pc[r] = "compensating"
  /\ committed[r] # <<>>
  /\ committed[r][NextToUndo(committed[r])].kind \in {"approve", "reject"}
  /\ undone'[r] # undone[r]

\* This step changes at most the status and rejection_reason of review id.
OnlyStatusAndReasonOf(id) ==
  /\ DOMAIN reviews' = DOMAIN reviews
  /\ \A i \in DOMAIN reviews :
       /\ i # id => reviews'[i] = reviews[i]
       /\ \A f \in DOMAIN reviews[i] \ {"status", "rejection_reason"} :
            reviews'[i][f] = reviews[i][f]

\* C23: the approve and reject forwards and their compensations change only
\* the status and rejection_reason of the review they target; its other
\* fields and every other review stay as they are.
ModerationKeepsOtherFields ==
  [][\A r \in Runs :
       /\ ModerationForwardActs(r) => OnlyStatusAndReasonOf(cur[r].review_id)
       /\ ModerationCompensationActs(r) =>
            OnlyStatusAndReasonOf(
              committed[r][NextToUndo(committed[r])].data.review_id)]_vars

\* C23 witness: with two reviews stored, a reject of one that was approved
\* has been compensated.
ModerationKeepsOtherFieldsWitness ==
  \E r \in Runs :
    /\ Just(r, "reject", "undone")
    /\ Cardinality(DOMAIN reviews) = 2
    /\ reviews[snap[r].id].status = "approved"

\* C24 (as claimed): when the compensation of run r's approve or reject step
\* acts on a review right after another run committed a moderation of that
\* review, the status and rejection_reason the other run wrote stay.
CompensationKeepsOthersCommit ==
  [][\A r \in Runs : \A q \in Runs \ {r} :
       (/\ ModerationCompensationActs(r)
        /\ \/ Just(q, "approve", "fwd")
           \/ Just(q, "reject", "fwd")
        /\ snap[q].id = committed[r][NextToUndo(committed[r])].data.review_id
        /\ \E i \in 1..Len(committed[q]) : committed[q][i].idx = snap[q].idx)
       => /\ snap[q].id \in DOMAIN reviews'
          /\ reviews'[snap[q].id].status = reviews[snap[q].id].status
          /\ reviews'[snap[q].id].rejection_reason =
               reviews[snap[q].id].rejection_reason]_vars

\* C25 (as claimed): the review an approve step returns when it commits is
\* approved, the one a reject step returns is rejected with the given reason,
\* and each is the stored review right after the step's update.
ReturnedReviewIsUpdated ==
  [][\A r \in Runs :
       (ModerationForwardActs(r) /\ pc'[r] = "running") =>
         LET id == cur[r].review_id
             returned == IF cur[r].kind = "approve"
                         THEN approveProductReviewStepOutput(cur[r].review).review
                         ELSE rejectProductReviewStepOutput(cur[r].review).review
         IN /\ returned = reviews'[id]
            /\ cur[r].kind = "approve" => returned.status = "approved"
            /\ cur[r].kind = "reject" =>
                 /\ returned.status = "rejected"
                 /\ returned.rejection_reason = cur[r].arg]_vars

\* The compensation of a delete step of run r acts in this step.
DeleteCompensationActs(r) ==
  /\ pc[r] = "compensating"
  /\ committed[r] # <<>>
  /\ committed[r][NextToUndo(committed[r])].kind = "delete"
  /\ undone'[r] # undone[r]

ListingIsOneSnapshot ==
  (listing.pc = "responded" /\ listing.route = "store") =>
    listing.body.average_rating = listing.average

\* C28 (as claimed): when the request is answered 500 because an upload
\* failed, no file of the request is stored by the file service.
UploadIsAllOrNothing ==
  (uploadPc = "responded" /\ StorageFailed) =>
    \A k \in 1..Len(uploads) : uploads[k] # "resolved"

\* The status uploadImage answers with, from the files and the outcome of
\* their uploads.
StatusByFilesAndUploads ==
  IF invalidFiles(files) # <<>> /\ validFiles(files) = <<>> THEN 400
  ELSE IF \E k \in 1..Len(uploads) : uploads[k] = "rejected" THEN 500
  ELSE 200

\* C29: when uploadImage has responded, with 400, 200 or 500, fs.unlinkSync
\* was called for every file of the request, and the status is the one the
\* files and the uploads decide, whether or not a call threw.
EveryTempFileUnlinked ==
  (uploadPc = "responded" /\ "message" \notin DOMAIN response.body) =>
    /\ \A i \in 1..Len(files) : \E call \in unlinked : call.part = i
    /\ response.status = StatusByFilesAndUploads

\* C29 witness: a request of one invalid file and one valid file whose upload
\* failed was answered 500, and a deletion threw.
EveryTempFileUnlinkedWitness ==
  /\ uploadPc = "responded"
  /\ response.status = 500
  /\ Len(invalidFiles(files)) = 1
  /\ Len(handed) = 1
  /\ \E call \in unlinked : ~call.returned

\* C30 (as claimed): the name a file is handed to the file service under
\* still ends with the extension of the name it was sent under.
HandedNameKeepsExtension ==
  \A k \in 1..Len(handed) :
    extname(handed[k].originalname) = extname(files[handed[k].part].originalname)

\* C9: after the delete forward and then its compensation, with no other
\* store operation since the forward began, the store is what it was before
\* the forward.
DeleteUndoRestoresStore ==
  \A r \in Runs :
    Just(r, "delete", "undone") =>
      /\ snap[r].id \in DOMAIN reviews
      /\ reviews = snap[r].store

\* C9 witness: a rejected review was deleted and the delete compensated.
DeleteUndoRestoresStoreWitness ==
  \E r \in Runs :
    /\ Just(r, "delete", "undone")
    /\ reviews[snap[r].id].status = "rejected"
    /\ reviews[snap[r].id].rejection_reason # NULL

\* C10: after the create forward and then its compensation, with no other
\* store operation in between, the created review is gone and the store is
\* what it was before the forward.
CreateUndoRestoresStore ==
  \A r \in Runs :
    Just(r, "create", "undone") =>
      /\ snap[r].id \notin DOMAIN reviews
      /\ reviews = snap[r].store

\* C10 witness: a create was compensated beside another stored review.
CreateUndoRestoresStoreWitness ==
  \E r \in Runs :
    /\ Just(r, "create", "undone")
    /\ DOMAIN reviews # {}
====
